---- MODULE Spec2Model ----
(***************************************************************************)
(* Model of package hh (josharian/hh): the Wrap adapter, its buffering     *)
(* response writer, the error-chain resolver asHTTPResponseError and the   *)
(* built-in error constructors.                                            *)
(*                                                                         *)
(* Error values are records tagged by their dynamic type:                  *)
(*   nil            the nil error                                          *)
(*   ResponseError  *hh.ResponseError (implements HTTPResponseError)       *)
(*   opaque         an error with no capabilities (errors.New)             *)
(*   wrap           an error with Unwrap() error (fmt.Errorf with %w,      *)
(*                  *json.MarshalerError, user wrappers)                   *)
(*   renderwrap     a user type with both RenderHTTP and Unwrap() error    *)
(*   join           an error with Unwrap() []error (errors.Join)           *)
(* Byte strings are sequences of tokens; a Go string is one token.         *)
(***************************************************************************)
EXTENDS Integers, Sequences, FiniteSets, TLC

VARIABLES
    errorware,  \* the errorware list Wrap was constructed with
    pc,         \* position of the request inside Wrap's closure
    bufw,       \* the bufferingResponseWriter of the request
    heldLive,   \* the handler holds the live map returned by Header()
    err,        \* Wrap's local variable err
    idx,        \* index of the next errorware stage to call
    sink,       \* the real http.ResponseWriter w, as a recorder
    hret,       \* what the handler returned (history)
    merged,     \* err after the merge of lines 91-97 (history)
    calls,      \* errorware calls made so far (history)
    written,    \* bytes the handler passed to Write, in order (history)
    whCalls,    \* codes the handler passed to WriteHeader, in order (history)
    nops,       \* number of writer calls the handler made
    hist,       \* the writer calls the handler made, in order (history)
    reqs,       \* concurrent requests: the state of each invocation of the closure
    heap,       \* concurrent requests: the bufferingResponseWriters allocated
    rpc,        \* resolver harness: position
    rin,        \* resolver harness: the error handed to the resolver
    rout        \* resolver harness: what the resolver returned

vars == <<errorware, pc, bufw, heldLive, err, idx, sink, hret, merged, calls,
          written, whCalls, nops, hist, reqs, heap, rpc, rin, rout>>

wrapVars == <<errorware, pc, bufw, heldLive, err, idx, sink, hret, merged,
              calls, written, whCalls, nops, hist>>

resolveVars == <<rpc, rin, rout>>

concVars == <<reqs, heap>>

(***************************************************************************)
(* Bounds                                                                  *)
(***************************************************************************)
MaxOps == 3         \* writer calls a handler makes before returning
MaxErrorware == 2   \* length of the errorware list
MaxGroup == 3       \* members of an error group given to the resolver
MaxChain == 3       \* wrapper layers of a single-cause chain
NReqs == 2          \* requests served concurrently by one wrapped handler

(***************************************************************************)
(* net/http constants and helpers used by the package                      *)
(***************************************************************************)
StatusOK == 200
StatusInternalServerError == 500

StatusText(code) ==
    CASE code = 200 -> "OK"
      [] code = 400 -> "Bad Request"
      [] code = 401 -> "Unauthorized"
      [] code = 403 -> "Forbidden"
      [] code = 404 -> "Not Found"
      [] code = 405 -> "Method Not Allowed"
      [] code = 429 -> "Too Many Requests"
      [] code = 500 -> "Internal Server Error"
      [] code = 503 -> "Service Unavailable"
      [] OTHER -> ""

(***************************************************************************)
(* Error values and constructors                                           *)
(***************************************************************************)
NilErr == [kind |-> "nil"]

ResponseError(statusCode, statusText) ==
    [kind |-> "ResponseError", StatusCode |-> statusCode, StatusText |-> statusText]

Error(statusCode) == ResponseError(statusCode, StatusText(statusCode))

ErrorText(statusCode, s) == ResponseError(statusCode, s)

\* errors.New(msg): no rendering capability, no unwrap capability
Opaque(msg) == [kind |-> "opaque", msg |-> <<msg>>]

\* strconv.Itoa for the status codes in use (the %d verb)
Itoa(code) ==
    CASE code = 200 -> "200"
      [] code = 400 -> "400"
      [] code = 401 -> "401"
      [] code = 403 -> "403"
      [] code = 404 -> "404"
      [] code = 405 -> "405"
      [] code = 429 -> "429"
      [] code = 500 -> "500"
      [] code = 503 -> "503"
      [] OTHER -> "?"

\* err.Error(); wrappers and groups carry the text computed at construction
ErrorString(e) ==
    IF e.kind \in {"ResponseError", "renderwrap"}
    THEN <<Itoa(e.StatusCode), ": ", e.StatusText>>
    ELSE IF e.kind = "nil" THEN <<"%!w(<nil>)">>
    ELSE e.msg

\* fmt.Errorf(prefix + "%w", cause): Unwrap() error returns cause
Errorf(prefix, cause) ==
    [kind |-> "wrap", msg |-> <<prefix>> \o ErrorString(cause), cause |-> cause]

\* a user type implementing both HTTPResponseError and Unwrap() error
RenderWrap(statusCode, statusText, cause) ==
    [kind |-> "renderwrap", StatusCode |-> statusCode, StatusText |-> statusText,
     cause |-> cause]

RECURSIVE JoinString(_, _)
JoinString(errs, i) ==
    IF i > Len(errs) THEN <<>>
    ELSE (IF i > 1 THEN <<"\n">> ELSE <<>>) \o ErrorString(errs[i]) \o JoinString(errs, i + 1)

\* errors.Join-like group: Unwrap() []error returns errs
Join(errs) == [kind |-> "join", msg |-> JoinString(errs, 1), errs |-> errs]

\* the type assertion err.(HTTPResponseError)
IsHTTPResponseError(e) == e.kind \in {"ResponseError", "renderwrap"}

\* the type switch case interface{ Unwrap() error }
HasUnwrap(e) == e.kind \in {"wrap", "renderwrap"}

\* the type switch case interface{ Unwrap() []error }
HasUnwrapMulti(e) == e.kind = "join"

(***************************************************************************)
(* json.Marshal and ErrorJSON.  A datum either encodes to a text or fails  *)
(* with a cause; a datum that fails also carries its %#v rendering, which  *)
(* ErrorJSON puts into the message of the error it returns.                *)
(***************************************************************************)
Encodable(text) == [ok |-> TRUE, text |-> text, cause |-> NilErr]

\* goSyntax is what the %#v verb prints for the datum
Unencodable(cause, goSyntax) ==
    [ok |-> FALSE, text |-> "", cause |-> cause, goSyntax |-> goSyntax]

\* *json.UnsupportedTypeError for a value of type typ: no unwrap capability
UnsupportedTypeError(typ) ==
    [kind |-> "opaque", msg |-> <<"json: unsupported type: ", typ>>]

\* *json.MarshalerError: wraps the error the MarshalJSON method of type typ
\* returned
MarshalerError(typ, inner) ==
    [kind |-> "wrap",
     msg |-> <<"json: error calling MarshalJSON for type ", typ, ": ">>
                 \o ErrorString(inner),
     cause |-> inner]

Marshal(data) ==
    IF data.ok THEN [buf |-> data.text, err |-> NilErr]
    ELSE [buf |-> "", err |-> data.cause]

\* line 56: "hh.ErrorJSON: encoding failed: %w (value: %#v)", err, data
ErrorJSON(statusCode, data) ==
    LET m == Marshal(data)
    IN  IF m.err # NilErr
        THEN [kind |-> "wrap",
              msg |-> <<"hh.ErrorJSON: encoding failed: ">> \o ErrorString(m.err)
                          \o <<" (value: ", data.goSyntax, ")">>,
              cause |-> m.err]
        ELSE ResponseError(statusCode, m.buf)

(***************************************************************************)
(* asHTTPResponseError                                                     *)
(***************************************************************************)
RECURSIVE asHTTPResponseError(_)
RECURSIVE FirstResolved(_, _)

\* a range loop that gives up when its first member does not resolve
FirstResolved_GivesUp(errs, i) ==
    IF i > Len(errs) THEN NilErr ELSE asHTTPResponseError(errs[i])

\* the range loop of the Unwrap() []error case, from member i on
FirstResolved(errs, i) ==
    IF i > Len(errs) THEN NilErr
    ELSE LET hre == asHTTPResponseError(errs[i])
         IN  IF hre # NilErr THEN hre ELSE FirstResolved(errs, i + 1)

\* a resolver that looks at the cause before it looks at the error itself
RECURSIVE asHTTPResponseError_CauseFirst(_)
asHTTPResponseError_CauseFirst(e) ==
    LET inner == IF HasUnwrap(e) /\ e.cause # NilErr
                 THEN asHTTPResponseError_CauseFirst(e.cause) ELSE NilErr
    IN  IF inner # NilErr THEN inner
        ELSE IF IsHTTPResponseError(e) THEN e
        ELSE IF HasUnwrapMulti(e) THEN FirstResolved(e.errs, 1)
        ELSE NilErr

asHTTPResponseError(e) ==
    IF IsHTTPResponseError(e) THEN e
    ELSE IF HasUnwrap(e)
         THEN IF e.cause = NilErr THEN NilErr ELSE asHTTPResponseError(e.cause)
    ELSE IF HasUnwrapMulti(e) THEN FirstResolved(e.errs, 1)
    ELSE NilErr

(***************************************************************************)
(* http.Header values: a function from the keys present to value lists     *)
(***************************************************************************)
NoHeader == [k \in {} |-> <<>>]

HSet(h, k, v) == [x \in (DOMAIN h) \cup {k} |-> IF x = k THEN <<v>> ELSE h[x]]

HAdd(h, k, v) ==
    [x \in (DOMAIN h) \cup {k} |->
        IF x = k THEN (IF k \in DOMAIN h THEN Append(h[k], v) ELSE <<v>>) ELSE h[x]]

HDel(h, k) == [x \in (DOMAIN h) \ {k} |-> h[x]]

\* h[k][0] = v, an in-place store into the value slice
HPoke(h, k, v) == [h EXCEPT ![k] = [@ EXCEPT ![1] = v]]

\* what a handler does with the map it got from Header()
HeaderKeys == {"Content-Type", "X-Trace"}
HeaderVals == {"text/html"}
PokeVal == "poked"

Mutations ==
    {[op |-> "none", k |-> "", v |-> ""]}
    \cup {[op |-> "Set", k |-> k, v |-> v] : k \in HeaderKeys, v \in HeaderVals}
    \cup {[op |-> "Add", k |-> k, v |-> v] : k \in {"X-Trace"}, v \in HeaderVals}
    \cup {[op |-> "Del", k |-> k, v |-> ""] : k \in HeaderKeys}
    \cup {[op |-> "Poke", k |-> k, v |-> PokeVal] : k \in {"Content-Type"}}

\* a Poke needs an element to store into (it panics in the handler otherwise)
CanMutate(h, m) == m.op = "Poke" => (m.k \in DOMAIN h /\ Len(h[m.k]) > 0)

\* the mutation applied to the map itself
MutateLive(h, m) ==
    CASE m.op = "Set" -> HSet(h, m.k, m.v)
      [] m.op = "Add" -> HAdd(h, m.k, m.v)
      [] m.op = "Del" -> HDel(h, m.k)
      [] m.op = "Poke" -> HPoke(h, m.k, m.v)
      [] OTHER -> h

\* the mutation applied to the copy of lines 157-160: the copy has its own
\* keys but shares the value slices, so only an in-place store shows in h
MutateCopy(h, m) ==
    CASE m.op = "Poke" -> HPoke(h, m.k, m.v)
      [] OTHER -> h

(***************************************************************************)
(* bufferingResponseWriter                                                 *)
(***************************************************************************)
NewBufferingResponseWriter ==
    [header |-> NoHeader, buffer |-> <<>>, code |-> 0,
     wroteCode |-> FALSE, wroteBody |-> FALSE, err |-> NilErr]

\* a setError that keeps the last error instead of the first
setError_Overwrites(w, e) == [w EXCEPT !.err = e]

setError(w, e) == IF w.err = NilErr THEN [w EXCEPT !.err = e] ELSE w

\* a Header() that stops handing out the live map once the status is set
Header_CopyAfterCode(w) ==
    IF w.wroteBody \/ w.wroteCode
    THEN [w |-> setError(w, ErrorText(StatusInternalServerError,
                                      "headers modified after being sent")),
          live |-> FALSE]
    ELSE [w |-> w, live |-> TRUE]

\* Header(): the writer afterwards, and whether the map returned is the live one
Header(w) ==
    IF w.wroteBody
    THEN [w |-> setError(w, ErrorText(StatusInternalServerError,
                                      "headers modified after being sent")),
          live |-> FALSE]
    ELSE [w |-> w, live |-> TRUE]

\* a WriteHeader that lets a later call overwrite the recorded code
WriteHeader_Overwrites(w, code) == [w EXCEPT !.code = code, !.wroteCode = TRUE]

WriteHeader(w, code) ==
    IF w.wroteCode
    THEN setError(w, ErrorText(StatusInternalServerError, "multiple calls to WriteHeader"))
    ELSE IF w.wroteBody
    THEN setError(w, ErrorText(StatusInternalServerError, "WriteHeader called after Write"))
    ELSE [w EXCEPT !.code = code, !.wroteCode = TRUE]

\* a Write that leaves the status to a later WriteHeader
Write_NoImplicitCode(w, b) == [w EXCEPT !.wroteBody = TRUE, !.buffer = @ \o b]

\* a Write that sets the default status without looking at wroteCode
Write_AlwaysSets200(w, b) ==
    [w EXCEPT !.code = StatusOK, !.wroteCode = TRUE, !.wroteBody = TRUE,
              !.buffer = @ \o b]

Write(w, b) ==
    LET w1 == IF ~w.wroteCode THEN WriteHeader(w, StatusOK) ELSE w
    IN  [w1 EXCEPT !.wroteBody = TRUE, !.buffer = @ \o b]

(***************************************************************************)
(* The real http.ResponseWriter, as a recorder of the calls made on it     *)
(***************************************************************************)
NewSink == [header |-> NoHeader, codes |-> <<>>, body |-> <<>>, ops |-> <<>>]

SinkOp(op, by) == [op |-> op, by |-> by]

\* k copies of x
RECURSIVE Repeat(_, _)
Repeat(x, k) == IF k = 0 THEN <<>> ELSE <<x>> \o Repeat(x, k - 1)

\* net/http.Error(w, error, code)
httpError(dst, text, code, by) ==
    [header |-> HSet(HSet(HDel(dst.header, "Content-Length"),
                          "Content-Type", "text/plain; charset=utf-8"),
                     "X-Content-Type-Options", "nosniff"),
     codes |-> Append(dst.codes, code),
     body |-> dst.body \o <<text, "\n">>,
     ops |-> dst.ops \o <<SinkOp("Header", by), SinkOp("WriteHeader", by),
                          SinkOp("Write", by)>>]

RenderHTTP(e, dst) == httpError(dst, e.StatusText, e.StatusCode, "RenderHTTP")

\* flush without the status write of lines 197-199
flush_SkipsCode(w, dst) ==
    [header |-> [k \in (DOMAIN dst.header) \cup (DOMAIN w.header) |->
                    IF k \in DOMAIN w.header THEN w.header[k] ELSE dst.header[k]],
     codes |-> dst.codes,
     body |-> IF Len(w.buffer) > 0 THEN dst.body \o w.buffer ELSE dst.body,
     ops |-> dst.ops
             \o Repeat(SinkOp("Header", "flush"), Cardinality(DOMAIN w.header))
             \o (IF Len(w.buffer) > 0 THEN <<SinkOp("Write", "flush")>> ELSE <<>>)]

flush(w, dst) ==
    [header |-> [k \in (DOMAIN dst.header) \cup (DOMAIN w.header) |->
                    IF k \in DOMAIN w.header THEN w.header[k] ELSE dst.header[k]],
     codes |-> IF w.wroteCode THEN Append(dst.codes, w.code) ELSE dst.codes,
     body |-> IF Len(w.buffer) > 0 THEN dst.body \o w.buffer ELSE dst.body,
     ops |-> dst.ops
             \o Repeat(SinkOp("Header", "flush"), Cardinality(DOMAIN w.header))
             \o (IF w.wroteCode THEN <<SinkOp("WriteHeader", "flush")>> ELSE <<>>)
             \o (IF Len(w.buffer) > 0 THEN <<SinkOp("Write", "flush")>> ELSE <<>>)]

(***************************************************************************)
(* Inputs of the request flow: what handlers do and return, and errorware  *)
(***************************************************************************)
Codes == {200, 404}

Chunks == {<<>>, <<"h">>, <<"i">>}

ErrNotFound == Error(404)

\* a value whose MarshalJSON method fails with a renderable error
BadMarshaler ==
    Unencodable(MarshalerError("main.T", ErrorText(403, "forbidden")), "main.T{}")

\* make(chan int): a type encoding/json does not support; %#v prints the
\* type and the address of the channel
BadType ==
    Unencodable(UnsupportedTypeError("chan int"), "(chan int)(0xc000012345)")

HandlerErrs ==
    { NilErr,
      Opaque("boom"),
      ErrNotFound,
      Errorf("outer: ", Errorf("inner: ", ErrorText(429, "slow down"))),
      Join(<<Opaque("first"), ErrorText(403, "forbidden"), Opaque("last")>>),
      ErrorJSON(429, Encodable("{\"sleep_sec\":1}")),
      ErrorJSON(429, BadType),
      ErrorJSON(429, BadMarshaler) }

\* errorware functions: func(*http.Request, error) error
ErrorwareKinds == {"log", "suppress", "introduce", "replace"}

CallErrorware(fn, e) ==
    CASE fn = "log" -> e
      [] fn = "suppress" -> NilErr
      [] fn = "introduce" -> IF e = NilErr THEN Opaque("introduced") ELSE e
      [] fn = "replace" -> IF e = NilErr THEN NilErr ELSE Error(503)

RECURSIVE SeqsUpTo(_, _)
SeqsUpTo(S, n) ==
    IF n = 0 THEN {<<>>}
    ELSE LET shorter == SeqsUpTo(S, n - 1)
         IN  shorter \cup {Append(q, x) : q \in shorter, x \in S}

(***************************************************************************)
(* Wrap: the closure serving one request                                   *)
(***************************************************************************)
\* a merge in which the writer's error replaces the handler's error
MergeErr_WriterErrWins(werr, herr) == IF werr # NilErr THEN werr ELSE herr

\* a merge that joins the two errors, the writer's error first
MergeErr_Joins(werr, herr) ==
    IF werr # NilErr
    THEN IF herr # NilErr THEN Join(<<werr, herr>>) ELSE werr
    ELSE herr

\* a merge that forgets the writer's error when the handler failed too
MergeErr_DropsWriterErr(werr, herr) == IF herr # NilErr THEN herr ELSE werr

\* lines 91-97: merge of the writer's error and the handler's error
MergeErr(werr, herr) ==
    IF werr # NilErr
    THEN IF herr # NilErr
         THEN [kind |-> "wrap",
               msg |-> <<"response write error (">> \o ErrorString(werr)
                       \o <<") after handler error: ">> \o ErrorString(herr),
               cause |-> herr]
         ELSE werr
    ELSE herr

\* an error path that forgets the buffer was never meant to be sent
WrapRespond_FlushThenError(w, dst, e) ==
    IF e = NilErr THEN flush(w, dst)
    ELSE LET re == asHTTPResponseError(e)
         IN  IF re = NilErr
             THEN httpError(flush(w, dst), StatusText(StatusInternalServerError),
                            StatusInternalServerError, "http.Error")
             ELSE RenderHTTP(re, flush(w, dst))

\* a fallback that sends the error's own text with the 500
WrapRespond_LeaksErrorText(w, dst, e) ==
    IF e = NilErr THEN flush(w, dst)
    ELSE LET re == asHTTPResponseError(e)
         IN  IF re = NilErr
             THEN httpError(dst, ErrorString(e)[1], StatusInternalServerError, "http.Error")
             ELSE RenderHTTP(re, dst)

\* lines 101-112: what Wrap does to the real writer once errorware has run
WrapRespond(w, dst, e) ==
    IF e = NilErr THEN flush(w, dst)
    ELSE LET re == asHTTPResponseError(e)
         IN  IF re = NilErr
             THEN httpError(dst, StatusText(StatusInternalServerError),
                            StatusInternalServerError, "http.Error")
             ELSE RenderHTTP(re, dst)

InitWrap ==
    /\ errorware \in SeqsUpTo(ErrorwareKinds, MaxErrorware)
    /\ pc = "handler"
    /\ bufw = NewBufferingResponseWriter
    /\ heldLive = FALSE
    /\ err = NilErr
    /\ idx = 1
    /\ sink = NewSink
    /\ hret = NilErr
    /\ merged = NilErr
    /\ calls = <<>>
    /\ written = <<>>
    /\ whCalls = <<>>
    /\ nops = 0
    /\ hist = <<>>

\* the handler calls w.Header() and uses the map it gets
CallHeader ==
    /\ pc = "handler"
    /\ nops < MaxOps
    /\ \E m \in Mutations :
          LET r == Header(bufw)
          IN  /\ CanMutate(r.w.header, m)
              /\ bufw' = [r.w EXCEPT !.header =
                             IF r.live THEN MutateLive(@, m) ELSE MutateCopy(@, m)]
              /\ heldLive' = (heldLive \/ r.live)
    /\ nops' = nops + 1
    /\ hist' = Append(hist, "Header")
    /\ UNCHANGED <<errorware, pc, err, idx, sink, hret, merged, calls, written, whCalls>>
    /\ UNCHANGED <<resolveVars, concVars>>

\* the handler uses a live map it kept from an earlier w.Header()
UseHeldHeader ==
    /\ pc = "handler"
    /\ nops < MaxOps
    /\ heldLive
    /\ \E m \in Mutations :
          /\ m.op # "none"
          /\ CanMutate(bufw.header, m)
          /\ bufw' = [bufw EXCEPT !.header = MutateLive(@, m)]
    /\ nops' = nops + 1
    /\ hist' = Append(hist, "held")
    /\ UNCHANGED <<errorware, pc, heldLive, err, idx, sink, hret, merged, calls, written, whCalls>>
    /\ UNCHANGED <<resolveVars, concVars>>

CallWriteHeader ==
    /\ pc = "handler"
    /\ nops < MaxOps
    /\ \E code \in Codes :
          /\ bufw' = WriteHeader(bufw, code)
          /\ whCalls' = Append(whCalls, code)
    /\ nops' = nops + 1
    /\ hist' = Append(hist, "WriteHeader")
    /\ UNCHANGED <<errorware, pc, heldLive, err, idx, sink, hret, merged, calls, written>>
    /\ UNCHANGED <<resolveVars, concVars>>

\* a Write that also reaches the real writer, as without buffering
CallWrite_Unbuffered ==
    /\ pc = "handler"
    /\ nops < MaxOps
    /\ \E b \in Chunks :
          /\ bufw' = Write(bufw, b)
          /\ written' = written \o b
          /\ sink' = [sink EXCEPT !.body = @ \o b,
                                  !.ops = Append(@, SinkOp("Write", "handler"))]
    /\ nops' = nops + 1
    /\ hist' = Append(hist, "Write")
    /\ UNCHANGED <<errorware, pc, heldLive, err, idx, hret, merged, calls, whCalls>>
    /\ UNCHANGED <<resolveVars, concVars>>

CallWrite ==
    /\ pc = "handler"
    /\ nops < MaxOps
    /\ \E b \in Chunks :
          /\ bufw' = Write(bufw, b)
          /\ written' = written \o b
    /\ nops' = nops + 1
    /\ hist' = Append(hist, "Write")
    /\ UNCHANGED <<errorware, pc, heldLive, err, idx, sink, hret, merged, calls, whCalls>>
    /\ UNCHANGED <<resolveVars, concVars>>

\* h returns; lines 90-97
HandlerReturn ==
    /\ pc = "handler"
    /\ \E e \in HandlerErrs :
          /\ hret' = e
          /\ err' = MergeErr(bufw.err, e)
          /\ merged' = MergeErr(bufw.err, e)
    /\ pc' = "errorware"
    /\ idx' = 1
    /\ UNCHANGED <<errorware, bufw, heldLive, sink, calls, written, whCalls, nops, hist>>
    /\ UNCHANGED <<resolveVars, concVars>>

\* a loop that is entered only when there is an error to report
ErrorwareStep_SkipsNil ==
    /\ pc = "errorware"
    /\ idx <= Len(errorware)
    /\ IF err = NilErr
       THEN /\ idx' = Len(errorware) + 1
            /\ UNCHANGED <<err, calls>>
       ELSE LET out == CallErrorware(errorware[idx], err)
            IN  /\ err' = out
                /\ calls' = Append(calls, [stage |-> idx, fn |-> errorware[idx],
                                           arg |-> err, ret |-> out])
                /\ idx' = idx + 1
    /\ UNCHANGED <<errorware, pc, bufw, heldLive, sink, hret, merged, written, whCalls, nops, hist>>
    /\ UNCHANGED <<resolveVars, concVars>>

\* one iteration of the loop of lines 98-100
ErrorwareStep ==
    /\ pc = "errorware"
    /\ idx <= Len(errorware)
    /\ LET out == CallErrorware(errorware[idx], err)
       IN  /\ err' = out
           /\ calls' = Append(calls, [stage |-> idx, fn |-> errorware[idx],
                                   arg |-> err, ret |-> out])
    /\ idx' = idx + 1
    /\ UNCHANGED <<errorware, pc, bufw, heldLive, sink, hret, merged, written, whCalls, nops, hist>>
    /\ UNCHANGED <<resolveVars, concVars>>

\* a success path without the return of line 103: it falls into the error path
Respond_NoReturnAfterFlush ==
    /\ pc = "errorware"
    /\ idx > Len(errorware)
    /\ sink' = (IF err = NilErr
                THEN httpError(flush(bufw, sink), StatusText(StatusInternalServerError),
                               StatusInternalServerError, "http.Error")
                ELSE WrapRespond(bufw, sink, err))
    /\ pc' = "done"
    /\ UNCHANGED <<errorware, bufw, heldLive, err, idx, hret, merged, calls, written, whCalls, nops, hist>>
    /\ UNCHANGED <<resolveVars, concVars>>

\* a decision taken on the merged error instead of the errorware's result
Respond_IgnoresErrorware ==
    /\ pc = "errorware"
    /\ idx > Len(errorware)
    /\ sink' = WrapRespond(bufw, sink, merged)
    /\ pc' = "done"
    /\ UNCHANGED <<errorware, bufw, heldLive, err, idx, hret, merged, calls, written, whCalls, nops, hist>>
    /\ UNCHANGED <<resolveVars, concVars>>

\* the loop is over; lines 101-112
Respond ==
    /\ pc = "errorware"
    /\ idx > Len(errorware)
    /\ sink' = WrapRespond(bufw, sink, err)
    /\ pc' = "done"
    /\ UNCHANGED <<errorware, bufw, heldLive, err, idx, hret, merged, calls, written, whCalls, nops, hist>>
    /\ UNCHANGED <<resolveVars, concVars>>

(***************************************************************************)
(* Resolver harness: asHTTPResponseError applied to one error              *)
(***************************************************************************)
InitResolve ==
    /\ rpc = "idle"
    /\ rin = NilErr
    /\ rout = NilErr

\* the concurrent harness is not running
InitConcIdle ==
    /\ reqs = <<>>
    /\ heap = <<>>

Init == InitWrap /\ InitResolve /\ InitConcIdle

Next ==
    \/ CallHeader
    \/ UseHeldHeader
    \/ CallWriteHeader
    \/ CallWrite
    \/ HandlerReturn
    \/ ErrorwareStep
    \/ Respond

Spec == Init /\ [][Next]_vars

\* the closure is straight-line code: whenever it can take a step it does
SpecFair == Init /\ [][Next]_vars /\ WF_vars(Next)

\* status codes telling the layers of a chain apart, outermost first
LayerCodes == <<400, 401, 403, 404, 405>>

\* a chain of single-cause wrappers around term; layers[1] is the outermost
RECURSIVE BuildChain(_, _, _)
BuildChain(layers, i, term) ==
    IF i > Len(layers) THEN term
    ELSE IF layers[i] = "renderwrap"
         THEN RenderWrap(LayerCodes[i], "layer", BuildChain(layers, i + 1, term))
         ELSE Errorf("layer: ", BuildChain(layers, i + 1, term))

ChainLayers == SeqsUpTo({"wrap", "renderwrap"}, MaxChain)

ChainTerms == {NilErr, Opaque("root cause"), ErrorText(429, "slow down")}

Chains == {BuildChain(l, 1, t) : l \in ChainLayers, t \in ChainTerms}

Leaves == {Opaque("x"), ErrorText(403, "forbidden"), ErrorText(429, "slow down")}

Members ==
    Leaves
    \cup {Errorf("m: ", x) : x \in Leaves \cup {NilErr}}
    \cup {Errorf("m: ", Errorf("n: ", ErrorText(401, "deep")))}
    \cup {Join(<<a, b>>) : a, b \in Leaves}

Groups == {Join(q) : q \in SeqsUpTo(Members, MaxGroup)}

ResolverInputs ==
    Chains \cup Groups \cup {Errorf("g: ", g) : g \in {Join(q) : q \in SeqsUpTo(Leaves, 2)}}

InitR ==
    /\ errorware = <<>>
    /\ pc = "handler"
    /\ bufw = NewBufferingResponseWriter
    /\ heldLive = FALSE
    /\ err = NilErr
    /\ idx = 1
    /\ sink = NewSink
    /\ hret = NilErr
    /\ merged = NilErr
    /\ calls = <<>>
    /\ written = <<>>
    /\ whCalls = <<>>
    /\ nops = 0
    /\ hist = <<>>
    /\ InitConcIdle
    /\ rpc = "call"
    /\ rin \in ResolverInputs
    /\ rout = NilErr

Resolve ==
    /\ rpc = "call"
    /\ rout' = asHTTPResponseError(rin)
    /\ rpc' = "done"
    /\ UNCHANGED <<rin, wrapVars, concVars>>

NextR == Resolve

SpecResolve == InitR /\ [][NextR]_vars

(***************************************************************************)
(* Properties of the request flow (specification Spec)                     *)
(***************************************************************************)
Done == pc = "done"

\* every errorware stage returned the error it was given
PassThrough == \A i \in DOMAIN calls : calls[i].ret = calls[i].arg

SinkWriters == {sink.ops[i].by : i \in DOMAIN sink.ops}

\* the headers net/http.Error leaves on a writer that had none
ErrorHeaders ==
    [k \in {"Content-Type", "X-Content-Type-Options"} |->
        IF k = "Content-Type" THEN <<"text/plain; charset=utf-8">> ELSE <<"nosniff">>]

\* C1: the real writer receives either the flushed buffer or an error
\* response, never a mixture: after a flush nothing on the writer comes from
\* an error rendering, and after an error response no buffered header,
\* status code or body byte is on the writer.
C1_OneCoherentResponse ==
    Done =>
        /\ (err = NilErr =>
              /\ SinkWriters \subseteq {"flush"}
              /\ sink.header = bufw.header
              /\ sink.body = bufw.buffer
              /\ Len(sink.codes) <= 1)
        /\ (err # NilErr =>
              /\ "flush" \notin SinkWriters
              /\ Cardinality(SinkWriters) = 1
              /\ sink.header = ErrorHeaders
              /\ Len(sink.codes) = 1
              /\ Len(sink.body) = 2
              /\ sink.body[2] = "\n"
              /\ sink.ops = <<SinkOp("Header", sink.ops[1].by),
                              SinkOp("WriteHeader", sink.ops[1].by),
                              SinkOp("Write", sink.ops[1].by)>>)

\* an error response was sent although the handler had buffered a header,
\* a status code and body bytes
C1_Witness ==
    /\ Done
    /\ err # NilErr
    /\ "X-Trace" \in DOMAIN bufw.header
    /\ bufw.code = 404
    /\ Len(bufw.buffer) > 0
    /\ "X-Trace" \notin DOMAIN sink.header

\* C2: when the handler wrote partial output and then returned an error that
\* exposes the rendering capability (and errorware passes errors through),
\* the response on the real writer is exactly that error's rendering.
C2_RenderingErrorAfterPartialOutput ==
    (Done /\ IsHTTPResponseError(hret) /\ PassThrough) =>
        sink = RenderHTTP(hret, NewSink)

\* scenario 2 of the specification: "partial" is written, Not Found returned
C2_Witness ==
    /\ Done
    /\ hret = ErrNotFound
    /\ Len(written) > 0
    /\ bufw.err # NilErr
    /\ sink.codes = <<404>>
    /\ sink.body = <<"Not Found", "\n">>

\* C3: when the handler returned nil, the writer recorded no discipline
\* error and the error is nil after errorware, the real writer holds exactly
\* what the handler wrote: the same header entries, the recorded status code
\* (only if one was recorded, explicitly or by the first Write) and the body
\* bytes in the order written, issued as headers, then status, then body.
C3_SuccessIsVerbatim ==
    (Done /\ hret = NilErr /\ bufw.err = NilErr /\ err = NilErr) =>
        /\ sink.header = bufw.header
        /\ sink.codes = (IF whCalls # <<>> THEN <<whCalls[1]>>
                         ELSE IF bufw.wroteBody THEN <<StatusOK>> ELSE <<>>)
        /\ sink.body = written
        /\ sink.ops = Repeat(SinkOp("Header", "flush"), Cardinality(DOMAIN bufw.header))
                      \o (IF sink.codes # <<>> THEN <<SinkOp("WriteHeader", "flush")>> ELSE <<>>)
                      \o (IF written # <<>> THEN <<SinkOp("Write", "flush")>> ELSE <<>>)

\* scenario 1 of the specification: a header and two body writes, nil returned
C3_Witness ==
    /\ Done
    /\ hret = NilErr
    /\ bufw.err = NilErr
    /\ err = NilErr
    /\ sink.header = [k \in {"Content-Type"} |-> <<"text/html">>]
    /\ sink.codes = <<StatusOK>>
    /\ sink.body = <<"h", "i">>

\* the generic response of line 109 on a writer nothing else was written to
Generic500 ==
    httpError(NewSink, "Internal Server Error", StatusInternalServerError, "http.Error")

DisciplineTexts == {"multiple calls to WriteHeader", "headers modified after being sent"}

\* C4 as claimed: after a second WriteHeader call a discipline error is
\* recorded, and if the handler returns nil and there is no errorware the
\* client receives the generic 500 whose body is "Internal Server Error".
C4_Original_DoubleWriteHeaderIsGeneric500 ==
    (Len(whCalls) >= 2) =>
        /\ bufw.err # NilErr
        /\ (Done /\ hret = NilErr /\ errorware = <<>>) =>
              /\ sink.codes = <<StatusInternalServerError>>
              /\ sink.body[1] = "Internal Server Error"

\* C4 as amended: after a second WriteHeader call a discipline error is
\* recorded; if the handler returns nil and errorware passes it through, the
\* client receives the discipline error's own rendering: status 500 with the
\* text of the first discipline error recorded as body.
C4_DoubleWriteHeaderRendersDisciplineError ==
    (Len(whCalls) >= 2) =>
        /\ bufw.err # NilErr
        /\ IsHTTPResponseError(bufw.err)
        /\ bufw.err.StatusCode = StatusInternalServerError
        /\ bufw.err.StatusText \in DisciplineTexts
        /\ (Done /\ hret = NilErr /\ PassThrough) =>
              /\ sink.header = ErrorHeaders
              /\ sink.codes = <<StatusInternalServerError>>
              /\ sink.body = <<bufw.err.StatusText, "\n">>

\* scenario 3 of the specification: WriteHeader(200), WriteHeader(404), nil
\* returned, no errorware
C4_Witness ==
    /\ Done
    /\ whCalls = <<200, 404>>
    /\ hret = NilErr
    /\ errorware = <<>>
    /\ bufw.code = 200
    /\ sink.codes = <<StatusInternalServerError>>
    /\ sink.body = <<"multiple calls to WriteHeader", "\n">>

UnencodableErrorJSON == {ErrorJSON(429, BadType), ErrorJSON(429, BadMarshaler)}

\* C5: an error made by ErrorJSON for data that cannot be encoded is never
\* resolved to a renderable error, whatever encoding cause it carries, and a
\* handler returning it always yields the generic 500 with default text.
C5_ErrorJSONFailureIsGeneric500 ==
    (Done /\ hret \in UnencodableErrorJSON /\ PassThrough) =>
        /\ asHTTPResponseError(hret) = NilErr
        /\ sink.codes = <<StatusInternalServerError>>
        /\ sink.body = <<"Internal Server Error", "\n">>

\* C6: every registered errorware is called exactly once, in registration
\* order, after the handler returned; the first stage receives the merged
\* handler/discipline error, stage i receives what stage i-1 returned, and
\* all stages are called even when the error they receive is nil.
C6_ErrorwareInOrder ==
    /\ (pc = "handler" => calls = <<>>)
    /\ (pc = "errorware" => Len(calls) = idx - 1)
    /\ (Done => Len(calls) = Len(errorware))
    /\ \A i \in DOMAIN calls :
          /\ calls[i].stage = i
          /\ calls[i].fn = errorware[i]
          /\ calls[i].arg = (IF i = 1 THEN MergeErr(bufw.err, hret) ELSE calls[i - 1].ret)
          /\ calls[i].ret = CallErrorware(errorware[i], calls[i].arg)
    /\ (Done => err = (IF calls = <<>> THEN MergeErr(bufw.err, hret)
                       ELSE calls[Len(calls)].ret))

\* two stages ran on a successful request; the first was given nil, the
\* second was given the error the first introduced
C6_Witness ==
    /\ Done
    /\ hret = NilErr
    /\ bufw.err = NilErr
    /\ Len(calls) = 2
    /\ calls[1].arg = NilErr
    /\ calls[1].ret = Opaque("introduced")
    /\ calls[2].arg = Opaque("introduced")

(***************************************************************************)
(* Properties of the resolver (specification SpecResolve)                  *)
(***************************************************************************)
Resolved == rpc = "done"

\* the outermost layer of a chain that renders, or 0
FirstRenderLayer(layers) ==
    IF \E i \in DOMAIN layers : layers[i] = "renderwrap"
    THEN CHOOSE i \in DOMAIN layers :
            /\ layers[i] = "renderwrap"
            /\ \A j \in 1..(i - 1) : layers[j] # "renderwrap"
    ELSE 0

\* C7: on a chain of single-cause wrappers the resolver returns the
\* outermost error of the chain that exposes the rendering capability,
\* however many layers precede it, and not-found exactly when no error of
\* the chain exposes it (the chain ends in nil or in an error that neither
\* renders nor unwraps).
C7_ChainResolvesToOutermost ==
    \A l \in ChainLayers, t \in ChainTerms :
        (Resolved /\ rin = BuildChain(l, 1, t)) =>
            LET k == FirstRenderLayer(l)
            IN  /\ (k > 0 => rout = BuildChain(l, k, t))
                /\ (k = 0 /\ IsHTTPResponseError(t) => rout = t)
                /\ (rout = NilErr <=> (k = 0 /\ ~IsHTTPResponseError(t)))

\* scenario 5 of the specification: a 429 two wrapper layers down
C7_Witness ==
    /\ Resolved
    /\ rin = Errorf("layer: ", Errorf("layer: ", ErrorText(429, "slow down")))
    /\ rout = ErrorText(429, "slow down")

\* every error reachable by unwrapping, parents before children, group
\* members in the group's order
RECURSIVE Preorder(_)
RECURSIVE PreorderAll(_, _)
Preorder(e) ==
    IF e.kind \in {"wrap", "renderwrap"}
    THEN <<e>> \o (IF e.cause = NilErr THEN <<>> ELSE Preorder(e.cause))
    ELSE IF e.kind = "join" THEN <<e>> \o PreorderAll(e.errs, 1)
    ELSE IF e.kind = "nil" THEN <<>>
    ELSE <<e>>

PreorderAll(errs, i) ==
    IF i > Len(errs) THEN <<>> ELSE Preorder(errs[i]) \o PreorderAll(errs, i + 1)

FirstRenderable(q) ==
    IF \E i \in DOMAIN q : IsHTTPResponseError(q[i])
    THEN q[CHOOSE i \in DOMAIN q :
              /\ IsHTTPResponseError(q[i])
              /\ \A j \in 1..(i - 1) : ~IsHTTPResponseError(q[j])]
    ELSE NilErr

\* C8: for a group that is not itself renderable the resolver returns the
\* resolution of the first member, in the group's order, whose own
\* structure resolves (depth-first: a renderable error nested inside an
\* earlier member wins over a directly renderable later member), and
\* not-found only if no member resolves.
C8_GroupResolvesFirstMember ==
    (Resolved /\ rin.kind = "join") =>
        LET n == Len(rin.errs)
            resolving == {i \in 1..n : FirstRenderable(Preorder(rin.errs[i])) # NilErr}
        IN  /\ rout = FirstRenderable(Preorder(rin))
            /\ (resolving = {} <=> rout = NilErr)
            /\ \A i \in resolving :
                  (\A j \in 1..(i - 1) : j \notin resolving) =>
                      rout = FirstRenderable(Preorder(rin.errs[i]))

\* a 401 two layers inside the second member wins over the directly
\* renderable 403 that follows it
C8_Witness ==
    /\ Resolved
    /\ rin = Join(<<Opaque("x"),
                    Errorf("m: ", Errorf("n: ", ErrorText(401, "deep"))),
                    ErrorText(403, "forbidden")>>)
    /\ rout = ErrorText(401, "deep")

(***************************************************************************)
(* Properties of the request flow, continued                               *)
(***************************************************************************)
Unrendered == err # NilErr /\ FirstRenderable(Preorder(err)) = NilErr

\* C9 as claimed: when the final error is non-nil and nothing in it renders,
\* the real writer gets status 500, the body "Internal Server Error" and no
\* headers, and the buffered output is discarded.
C9_Original_Generic500HasNoHeaders ==
    (Done /\ Unrendered) =>
        /\ sink.codes = <<StatusInternalServerError>>
        /\ sink.body[1] = "Internal Server Error"
        /\ DOMAIN sink.header = {}

\* C9 as amended: when the final error is non-nil and nothing in it renders,
\* the real writer gets status 500, the body "Internal Server Error"
\* followed by a newline, and exactly the two headers net/http.Error sets;
\* no buffered header, status code or body byte is on it.
C9_Generic500 ==
    (Done /\ Unrendered) =>
        /\ sink.codes = <<StatusInternalServerError>>
        /\ sink.body = <<"Internal Server Error", "\n">>
        /\ sink.header = ErrorHeaders
        /\ sink = Generic500

\* an opaque error after the handler buffered a header, a 404 and a body
C9_Witness ==
    /\ Done
    /\ hret = Opaque("boom")
    /\ err = hret
    /\ "X-Trace" \in DOMAIN bufw.header
    /\ bufw.code = 404
    /\ Len(bufw.buffer) > 0
    /\ sink = Generic500

\* C10: nothing is done to the real writer until the handler has returned
\* and every errorware stage has run.
C10_SinkUntouchedBeforeDecision ==
    (pc \in {"handler", "errorware"}) => sink = NewSink

\* the second errorware stage is about to run, the buffer holds a header, a
\* status code and body bytes, and the real writer is untouched
C10_Witness ==
    /\ pc = "errorware"
    /\ idx = 2
    /\ Len(errorware) = 2
    /\ bufw.header # NoHeader
    /\ bufw.wroteCode
    /\ Len(bufw.buffer) > 0
    /\ sink = NewSink

(***************************************************************************)
(* The merge of lines 91-97                                                *)
(***************************************************************************)
\* the errors reachable from e by unwrapping, e included
Reachable(e) == {Preorder(e)[i] : i \in DOMAIN Preorder(e)}

\* q occurs in p as a run of consecutive tokens
IsInfix(q, p) ==
    \E k \in 0..(Len(p) - Len(q)) : \A i \in DOMAIN q : p[k + i] = q[i]

Returned == pc # "handler"

\* C11 as claimed: the error given to the first errorware is the merge of
\* the discipline error and the handler's error; when both are non-nil it is
\* one composite error that preserves both as causes, when only one is
\* non-nil it is that error, when neither is it is nil.
C11_Original_MergePreservesBothCauses ==
    Returned =>
        /\ (calls # <<>> => calls[1].arg = merged)
        /\ (bufw.err # NilErr /\ hret # NilErr =>
              /\ merged \notin {bufw.err, hret}
              /\ hret \in Reachable(merged)
              /\ bufw.err \in Reachable(merged))
        /\ (bufw.err # NilErr /\ hret = NilErr => merged = bufw.err)
        /\ (bufw.err = NilErr => merged = hret)

\* C11 as amended: when both are non-nil the merge is one wrapper whose only
\* cause is the handler's error; the discipline error is kept as text of the
\* wrapper's message and cannot be reached by unwrapping.
C11_MergeWrapsHandlerError ==
    Returned =>
        /\ (calls # <<>> => calls[1].arg = merged)
        /\ (bufw.err # NilErr /\ hret # NilErr =>
              /\ merged \notin {bufw.err, hret}
              /\ HasUnwrap(merged)
              /\ ~HasUnwrapMulti(merged)
              /\ ~IsHTTPResponseError(merged)
              /\ merged.cause = hret
              /\ Reachable(merged) = {merged} \cup Reachable(hret)
              /\ bufw.err \notin Reachable(merged)
              /\ IsInfix(ErrorString(bufw.err), ErrorString(merged))
              /\ IsInfix(ErrorString(hret), ErrorString(merged)))
        /\ (bufw.err # NilErr /\ hret = NilErr => merged = bufw.err)
        /\ (bufw.err = NilErr => merged = hret)

\* a double WriteHeader and an opaque handler error, given to a first stage
C11_Witness ==
    /\ Len(whCalls) = 2
    /\ bufw.err = ErrorText(StatusInternalServerError, "multiple calls to WriteHeader")
    /\ hret = Opaque("boom")
    /\ calls # <<>>
    /\ calls[1].arg = merged
    /\ merged.cause = hret

(***************************************************************************)
(* Termination of the request flow (specification SpecFair)                *)
(***************************************************************************)
\* the number of calls of kind op made on the real writer
SinkCount(op) == Cardinality({i \in DOMAIN sink.ops : sink.ops[i].op = op})

\* one response and no more: one source wrote to the real writer, with at
\* most one status line and one body write; an error response has both
OneResponse ==
    /\ Cardinality(SinkWriters) <= 1
    /\ Len(sink.codes) <= 1
    /\ SinkCount("WriteHeader") = Len(sink.codes)
    /\ SinkCount("Write") <= 1
    /\ (err = NilErr => SinkWriters \subseteq {"flush"})
    /\ (err # NilErr => Len(sink.codes) = 1 /\ SinkCount("Write") = 1)

\* C12: whatever the handler wrote and returned and whatever the errorware
\* list, the closure reaches its terminal step, and it has then emitted
\* exactly one response; nothing is emitted after that.
C12_ExactlyOneResponse ==
    /\ <>Done
    /\ [](Done => OneResponse)
    /\ [][Done => (Done' /\ sink' = sink)]_vars

\* two errorware stages ran on a handler error after a discipline error,
\* and one error response is on the real writer
C12_Witness ==
    /\ Done
    /\ bufw.err # NilErr
    /\ hret # NilErr
    /\ Len(calls) = 2
    /\ err # NilErr
    /\ Len(sink.codes) = 1
    /\ SinkCount("Write") = 1

(***************************************************************************)
(* Concurrent requests: the closure Wrap returns is called once per        *)
(* request, each call on its own goroutine.  heap holds the writers        *)
(* allocated so far; a request refers to its writer by its slot.           *)
(***************************************************************************)
Reqs == 1..NReqs

\* every request writes values of its own
ReqTag(r) == <<"r1", "r2", "r3", "r4">>[r]

ConcErrs == {NilErr, ErrNotFound}

\* line 89: new(bufferingResponseWriter) gives a writer nothing else refers to
NewWriterSlot_Shared(h) == 1

NewWriterSlot(h) == Len(h) + 1

IdleReq ==
    [pc |-> "start", slot |-> 0, own |-> NewBufferingResponseWriter,
     err |-> NilErr, hret |-> NilErr, idx |-> 1, sink |-> NewSink, made |-> {}]

InitConc ==
    /\ errorware = <<"log">>
    /\ pc = "handler"
    /\ bufw = NewBufferingResponseWriter
    /\ heldLive = FALSE
    /\ err = NilErr
    /\ idx = 1
    /\ sink = NewSink
    /\ hret = NilErr
    /\ merged = NilErr
    /\ calls = <<>>
    /\ written = <<>>
    /\ whCalls = <<>>
    /\ nops = 0
    /\ hist = <<>>
    /\ InitResolve
    /\ reqs = [r \in Reqs |-> IdleReq]
    /\ heap = <<>>

\* the errorware loop of lines 98-100, run to its end from stage i
RECURSIVE RunErrorware(_, _, _)
RunErrorware(fns, i, e) ==
    IF i > Len(fns) THEN e ELSE RunErrorware(fns, i + 1, CallErrorware(fns[i], e))

\* what one writer call does to a writer
WriterCall(w, c) ==
    CASE c.op = "Header" ->
            LET h == Header(w)
            IN  [h.w EXCEPT !.header = IF h.live THEN MutateLive(@, c.m)
                                       ELSE MutateCopy(@, c.m)]
      [] c.op = "WriteHeader" -> WriteHeader(w, c.code)
      [] c.op = "Write" -> Write(w, c.b)

\* the writer calls the handler makes for request r, each at most once and
\* in any order
ReqCalls(r) ==
    { [op |-> "Header", m |-> [op |-> "Set", k |-> "X-Trace", v |-> ReqTag(r)]],
      [op |-> "WriteHeader", code |-> 404],
      [op |-> "Write", b |-> <<ReqTag(r)>>] }

\* line 89: the closure starts and allocates its writer
ConcStart ==
    \E r \in Reqs :
        /\ reqs[r].pc = "start"
        /\ LET s == NewWriterSlot(heap)
           IN  /\ heap' = (IF s > Len(heap)
                           THEN Append(heap, NewBufferingResponseWriter) ELSE heap)
               /\ reqs' = [reqs EXCEPT ![r].pc = "handler", ![r].slot = s]
        /\ UNCHANGED <<wrapVars, resolveVars>>

\* the handler of request r makes one writer call
ConcWriterCall ==
    \E r \in Reqs :
        /\ reqs[r].pc = "handler"
        /\ \E c \in ReqCalls(r) \ reqs[r].made :
              /\ heap' = [heap EXCEPT ![reqs[r].slot] = WriterCall(@, c)]
              /\ reqs' = [reqs EXCEPT ![r].own = WriterCall(@, c),
                                      ![r].made = @ \cup {c}]
        /\ UNCHANGED <<wrapVars, resolveVars>>

\* lines 90-97: the handler of request r returns and the errors are merged
ConcReturn ==
    \E r \in Reqs :
        /\ reqs[r].pc = "handler"
        /\ \E e \in ConcErrs :
              reqs' = [reqs EXCEPT
                          ![r].pc = "errorware",
                          ![r].hret = e,
                          ![r].err = MergeErr(heap[reqs[r].slot].err, e),
                          ![r].idx = 1]
        /\ UNCHANGED <<heap, wrapVars, resolveVars>>

\* lines 98-100 for request r: one iteration of the loop; other requests
\* run between the iterations
ConcErrorwareStep ==
    \E r \in Reqs :
        /\ reqs[r].pc = "errorware"
        /\ reqs[r].idx <= Len(errorware)
        /\ reqs' = [reqs EXCEPT
                       ![r].err = CallErrorware(errorware[reqs[r].idx], @),
                       ![r].idx = @ + 1]
        /\ UNCHANGED <<heap, wrapVars, resolveVars>>

\* lines 101-112 for request r, the loop being over
ConcRespond ==
    \E r \in Reqs :
        /\ reqs[r].pc = "errorware"
        /\ reqs[r].idx > Len(errorware)
        /\ reqs' = [reqs EXCEPT
                       ![r].pc = "done",
                       ![r].sink = WrapRespond(heap[reqs[r].slot], @, reqs[r].err)]
        /\ UNCHANGED <<heap, wrapVars, resolveVars>>

NextConc ==
    \/ ConcStart
    \/ ConcWriterCall
    \/ ConcReturn
    \/ ConcErrorwareStep
    \/ ConcRespond

SpecConc == InitConc /\ [][NextConc]_vars

\* the values found on the real writer of request r
SinkValues(r) ==
    {reqs[r].sink.body[i] : i \in DOMAIN reqs[r].sink.body}
    \cup UNION {{reqs[r].sink.header[k][i] : i \in DOMAIN reqs[r].sink.header[k]} :
                    k \in DOMAIN reqs[r].sink.header}

\* C13: with several requests in flight through the same wrapped handler,
\* every invocation has a writer of its own: under every interleaving the
\* writer of a request holds what that request's handler recorded and
\* nothing else, at every point of the errorware loop the error of a
\* request is the one it would have alone, and so is its response; no value
\* written for one request is on another request's writer.
C13_RequestsAreIsolated ==
    \A r \in Reqs :
        /\ (reqs[r].pc # "start" =>
              /\ reqs[r].slot \in DOMAIN heap
              /\ heap[reqs[r].slot] = reqs[r].own
              /\ \A q \in Reqs \ {r} :
                    reqs[q].pc # "start" => reqs[q].slot # reqs[r].slot)
        /\ (reqs[r].pc = "errorware" =>
              RunErrorware(errorware, reqs[r].idx, reqs[r].err)
                  = RunErrorware(errorware, 1,
                        MergeErr(reqs[r].own.err, reqs[r].hret)))
        /\ (reqs[r].pc = "done" =>
              reqs[r].err = RunErrorware(errorware, 1,
                                MergeErr(reqs[r].own.err, reqs[r].hret)))
        /\ (reqs[r].pc = "done" =>
              /\ reqs[r].sink = WrapRespond(reqs[r].own, NewSink, reqs[r].err)
              /\ \A q \in Reqs \ {r} : ReqTag(q) \notin SinkValues(r))

\* request 1 violated the discipline and got the 500 while request 2, whose
\* handler ran in between, got its own header and body flushed
C13_Witness ==
    /\ reqs[1].pc = "done"
    /\ reqs[2].pc = "done"
    /\ Len(heap) = NReqs
    /\ reqs[1].own.err # NilErr
    /\ reqs[1].sink.codes = <<StatusInternalServerError>>
    /\ reqs[2].own.err = NilErr
    /\ reqs[2].hret = NilErr
    /\ reqs[2].sink.header = [k \in {"X-Trace"} |-> <<"r2">>]
    /\ reqs[2].sink.body = <<"r2">>

(***************************************************************************)
(* Properties of the buffering writer, step by step (specification Spec)   *)
(***************************************************************************)
\* the step is the handler's call of the named writer method
Calls(method) == hist' = Append(hist, method)

ErrHeadersModified ==
    ErrorText(StatusInternalServerError, "headers modified after being sent")

ErrMultipleWriteHeader ==
    ErrorText(StatusInternalServerError, "multiple calls to WriteHeader")

ErrWriteHeaderAfterWrite ==
    ErrorText(StatusInternalServerError, "WriteHeader called after Write")

\* the call being made breaks the writer's discipline
Violates ==
    \/ (Calls("Header") /\ bufw.wroteBody)
    \/ (Calls("WriteHeader") /\ (bufw.wroteCode \/ bufw.wroteBody))

\* C14: the discipline error is sticky: it is recorded by the first
\* violating call, it is the error of that call, and no later call,
\* violating or not, overwrites or clears it.
C14_DisciplineErrorIsSticky ==
    [][ /\ (bufw.err # NilErr => bufw'.err = bufw.err)
        /\ (bufw.err = NilErr /\ Violates =>
              bufw'.err = (IF Calls("Header") THEN ErrHeadersModified
                           ELSE ErrMultipleWriteHeader))
        /\ (bufw.err = NilErr /\ ~Violates => bufw'.err = NilErr)
      ]_vars

\* Write, then Header() (first violation), then WriteHeader (second
\* violation): the error recorded is still the one of the Header() call
C14_Witness ==
    /\ hist = <<"Write", "Header", "WriteHeader">>
    /\ bufw.err = ErrHeadersModified

\* C15: the status code is assigned once, by the first WriteHeader(code) or
\* by the first Write (which sets 200 when no status is set); every later
\* WriteHeader call leaves the code as it is, records a discipline error and
\* returns to the handler.
C15_StatusCodeIsSingleAssignment ==
    [][ /\ (bufw.wroteCode => bufw'.wroteCode /\ bufw'.code = bufw.code)
        /\ (~bufw.wroteCode /\ Calls("WriteHeader") =>
              bufw'.wroteCode /\ bufw'.code = whCalls'[Len(whCalls')])
        /\ (~bufw.wroteCode /\ Calls("Write") =>
              bufw'.wroteCode /\ bufw'.code = StatusOK)
        /\ (~bufw.wroteCode /\ ~Calls("WriteHeader") /\ ~Calls("Write") =>
              ~bufw'.wroteCode /\ bufw'.code = 0)
        /\ (bufw.wroteCode /\ Calls("WriteHeader") =>
              /\ bufw'.err # NilErr
              /\ bufw'.buffer = bufw.buffer
              /\ bufw'.header = bufw.header
              /\ pc' = "handler")
      ]_vars

\* WriteHeader(404) then WriteHeader(200): the code stays 404, a discipline
\* error is recorded and the handler goes on
C15_Witness ==
    /\ pc = "handler"
    /\ hist = <<"WriteHeader", "WriteHeader">>
    /\ whCalls = <<404, 200>>
    /\ bufw.code = 404
    /\ bufw.err = ErrMultipleWriteHeader

\* C16: once the body has started, every Header() call returns a copy and
\* records "headers modified after being sent" unless an error is already
\* recorded, and whatever the handler does with the copy leaves the
\* writer's headers as they were.
C16_HeaderCopyIsolatesAfterWrite ==
    [][ (CallHeader /\ bufw.wroteBody) =>
            /\ bufw'.err = (IF bufw.err = NilErr THEN ErrHeadersModified ELSE bufw.err)
            /\ heldLive' = heldLive
            /\ bufw'.header = bufw.header
      ]_vars

\* C17: while the body has not started, Header() hands out the live map and
\* records no error, also after WriteHeader; what the handler does to the
\* map is kept, and a flush copies the headers to the real writer before it
\* writes the status code.
C17_HeaderIsLiveBeforeWrite ==
    /\ [][ (CallHeader /\ ~bufw.wroteBody) =>
              /\ bufw'.err = bufw.err
              /\ heldLive'
              /\ \E m \in Mutations :
                    /\ CanMutate(bufw.header, m)
                    /\ bufw'.header = MutateLive(bufw.header, m)
         ]_vars
    /\ [](Done /\ err = NilErr =>
              /\ sink.header = bufw.header
              /\ \A i, j \in DOMAIN sink.ops :
                    (sink.ops[i].op = "Header" /\ sink.ops[j].op = "WriteHeader") => i < j)

\* WriteHeader(404), then a header set through Header(), then a Write; the
\* header and the 404 are both on the real writer
C17_Witness ==
    /\ Done
    /\ hist = <<"WriteHeader", "Header", "Write">>
    /\ whCalls = <<404>>
    /\ bufw.err = NilErr
    /\ err = NilErr
    /\ sink.header = [k \in {"X-Trace"} |-> <<"text/html">>]
    /\ sink.codes = <<404>>
    /\ sink.ops[1] = SinkOp("Header", "flush")
    /\ sink.ops[2] = SinkOp("WriteHeader", "flush")

(***************************************************************************)
(* The decision of lines 101-112, continued                                *)
(***************************************************************************)
\* what the last errorware stage returned
LastReturned == calls[Len(calls)].ret

\* C18: whether the buffer is flushed or an error response is sent depends
\* only on what the last errorware stage returned: nil means flush, also
\* when the handler failed or a discipline error was recorded; non-nil means
\* the buffer is dropped and an error response is sent, also when the
\* handler returned nil without a violation.
C18_DecisionFollowsLastErrorware ==
    (Done /\ calls # <<>>) =>
        /\ (LastReturned = NilErr =>
              /\ sink.header = bufw.header
              /\ sink.codes = (IF bufw.wroteCode THEN <<bufw.code>> ELSE <<>>)
              /\ sink.body = bufw.buffer
              /\ SinkWriters \subseteq {"flush"})
        /\ (LastReturned # NilErr =>
              /\ sink.header = ErrorHeaders
              /\ Len(sink.codes) = 1
              /\ "flush" \notin SinkWriters
              /\ sink = (IF FirstRenderable(Preorder(LastReturned)) = NilErr
                         THEN Generic500
                         ELSE RenderHTTP(FirstRenderable(Preorder(LastReturned)), NewSink)))

\* the handler broke the discipline and returned Not Found, an errorware
\* stage returned nil, and the buffered 404 and body were flushed
C18_Witness ==
    /\ Done
    /\ bufw.err # NilErr
    /\ hret = ErrNotFound
    /\ errorware = <<"suppress">>
    /\ LastReturned = NilErr
    /\ sink.codes = <<404>>
    /\ Len(sink.body) > 0
    /\ sink.body = bufw.buffer

\* C19: in every state of the writer wroteBody implies wroteCode and a
\* non-zero code implies wroteCode; so a WriteHeader after a Write is
\* rejected as "multiple calls to WriteHeader", and the error
\* "WriteHeader called after Write" is never recorded.
C19_WriteHeaderAfterWriteUnreachable ==
    /\ [](/\ (bufw.wroteBody => bufw.wroteCode)
          /\ (bufw.code # 0 => bufw.wroteCode)
          /\ bufw.err # ErrWriteHeaderAfterWrite)
    /\ [][ (Calls("WriteHeader") /\ bufw.wroteBody) =>
              /\ bufw'.err = (IF bufw.err = NilErr THEN ErrMultipleWriteHeader
                              ELSE bufw.err)
              /\ bufw'.code = bufw.code
         ]_vars

\* a Write, then a WriteHeader(404): rejected as a multiple call, the code
\* stays the implicit 200
C19_Witness ==
    /\ hist = <<"Write", "WriteHeader">>
    /\ whCalls = <<404>>
    /\ bufw.code = StatusOK
    /\ bufw.err = ErrMultipleWriteHeader

\* C20: when a discipline error was recorded, the handler returned a non-nil
\* error and the errorware leaves the merged error as it is, the response is
\* that of the handler's error alone: the rendering of the first renderable
\* error in it, or the generic 500; the discipline error is never the one
\* rendered.
C20_HandlerErrorDecidesAfterViolation ==
    (Done /\ bufw.err # NilErr /\ hret # NilErr /\ PassThrough) =>
        LET re == FirstRenderable(Preorder(hret))
        IN  /\ sink = (IF re = NilErr THEN Generic500 ELSE RenderHTTP(re, NewSink))
            /\ sink.body[1] \notin DisciplineTexts
            /\ asHTTPResponseError(err) # bufw.err

\* a double WriteHeader, then an opaque handler error: the generic 500 is
\* sent, not the discipline error's text
C20_Witness ==
    /\ Done
    /\ bufw.err = ErrMultipleWriteHeader
    /\ hret = Opaque("boom")
    /\ errorware = <<>>
    /\ sink = Generic500

====
